---- MODULE Spec2Model ----
(***************************************************************************)
(* The two notebooks of the repository.                                    *)
(*                                                                         *)
(*  - The deployment notebook: its code cells run in order against the     *)
(*    SageMaker service (specification Spec, and LiveSpec with fairness).  *)
(*    A cell that raises an uncaught exception ends the in-order run.      *)
(*    The service side (endpoint creation and deletion completing          *)
(*    asynchronously, the manual approval in the Studio console) is the    *)
(*    environment the notebook's markdown cells describe.                  *)
(*                                                                         *)
(*  - preprocessing_script.py of the data-processing notebook: a           *)
(*    straight-line pandas script, one action per statement, run on every  *)
(*    input table within the bounds (specification ScriptSpec).            *)
(*                                                                         *)
(*  - The data-processing notebook itself: its code cells run in order,    *)
(*    the upload to the default bucket, the processing job that downloads  *)
(*    its input, runs the script and uploads its output, and the read of   *)
(*    the processed file (specification Lab3Spec).                         *)
(***************************************************************************)
EXTENDS Integers, Sequences, FiniteSets, TLC

\* Packages already held by the model package group before the run.
MaxPreexisting == 1
\* Rows of the input table.
MaxRows == 2

VARIABLES
    \* ---- deployment notebook (kernel state)
    cell,                      \* index into Cells of the cell being run
    at,                        \* position inside the Clean Up cell
    run,                       \* "running" | "failed" | "finished"
    printed,                   \* messages printed so far
    issued,                    \* service operations called so far
    done,                      \* cells that completed without an uncaught exception
    model_package,             \* version registered by model.register (0: none)
    latest_model_package_arn,  \* version retrieved in Step 4 (0: unset)
    lastDescribe,              \* outcome of the latest describe_endpoint call
    invokedAt,                 \* endpoint status when invoke_endpoint was issued
    \* ---- SageMaker service
    models,                    \* models known to the service
    groupExists,               \* the model package group exists
    packages,                  \* versions of the group, in creation order
    endpointConfig,            \* the endpoint configuration
    endpoint,                  \* the endpoint
    \* ---- preprocessing_script.py
    input,                     \* rows of /opt/ml/processing/input/data.csv
    df,                        \* the script's DataFrame
    spc,                       \* the statement the script is at
    out,                       \* /opt/ml/processing/output/processed.csv
    \* ---- data-processing notebook (kernel state), bucket and job
    lcell,                     \* index into LabCells of the cell being run
    lrun,                      \* "running" | "failed" | "finished"
    ldone,                     \* cells that completed without an uncaught exception
    bucket,                    \* objects of the default bucket, by key
    job,                       \* the processing job: "none" | "InProgress" |
                               \* "Completed" | "Failed"
    df_cleaned                 \* the object pd.read_csv of Step 6 fetched

nbVars == <<cell, at, run, printed, issued, done, model_package,
            latest_model_package_arn, lastDescribe, invokedAt>>
svcVars == <<models, groupExists, packages, endpointConfig, endpoint>>
scVars == <<input, df, spc, out>>
labVars == <<lcell, lrun, ldone, bucket, job, df_cleaned>>
vars == <<nbVars, svcVars, scVars, labVars>>

----------------------------------------------------------------------------
\* Names the notebook binds.

model_name == "house-prices"
model_package_group_name == "house-price-prediction-group"
model_approval_status == "PendingManualApproval"
endpoint_config_name == "house-price-endpoint-config"
endpoint_name == "house-price-prediction-endpoint"

\* The cells with create_endpoint placed ahead of create_endpoint_config.
CellsEndpointBeforeConfig ==
    << "setup", "model_create", "create_group", "register", "retrieve",
       "create_endpoint", "create_config", "invoke", "cleanup" >>

\* The code cells in notebook order.
Cells ==
    << "setup", "model_create", "create_group", "register", "retrieve",
       "create_config", "create_endpoint", "invoke", "cleanup" >>

NoPackage == 0
NoConfig == [EndpointConfigName |-> "", ModelName |-> ""]
NoEndpoint == [EndpointName |-> "", EndpointConfigName |-> "", status |-> "None"]

ApprovalStatuses == {"PendingManualApproval", "Approved", "Rejected"}

\* A service error other than the ones the code names.
OtherError == "ThrottlingException"

----------------------------------------------------------------------------
\* The service's answers.

\* The versions in S listed oldest first.
RECURSIVE SortByCreationTimeAscending(_)
SortByCreationTimeAscending(S) ==
    IF S = {} THEN << >>
    ELSE LET v == CHOOSE x \in S :
                      \A y \in S : packages[x].created <= packages[y].created
         IN  <<v>> \o SortByCreationTimeAscending(S \ {v})

\* list_model_packages(SortBy='CreationTime', SortOrder='Descending') over the
\* versions in S.
RECURSIVE SortByCreationTimeDescending(_)
SortByCreationTimeDescending(S) ==
    IF S = {} THEN << >>
    ELSE LET v == CHOOSE x \in S :
                      \A y \in S : packages[y].created <= packages[x].created
         IN  <<v>> \o SortByCreationTimeDescending(S \ {v})

\* response['ModelPackageSummaryList'] of list_model_packages with the
\* ModelApprovalStatus filter.
ModelPackageSummaryList(status) ==
    SortByCreationTimeDescending(
        {v \in 1..Len(packages) : packages[v].status = status})

\* The model package behind the model an endpoint configuration names.
DeployedPackage ==
    LET m == CHOOSE x \in models : x.ModelName = endpointConfig.ModelName
    IN  m.ModelPackage

\* describe_endpoint: the endpoint's description while it exists, a
\* ValidationException ("could not find endpoint") once it is gone, or
\* another service error at any time.
DescribeOutcomes ==
    IF endpoint.status = "None" THEN {"ValidationException", OtherError}
    ELSE {"ok", OtherError}

----------------------------------------------------------------------------
\* preprocessing_script.py: values, frames and the pandas operations it uses.
\* Numbers are exact rationals num/den in lowest terms.

RECURSIVE GCD(_, _)
GCD(a, b) == IF b = 0 THEN a ELSE GCD(b, a % b)

NA == [k |-> "na", num |-> 0, den |-> 1, s |-> ""]
Num(n, d) ==
    LET g == GCD(n, d)
    IN  [k |-> "num", num |-> n \div g, den |-> d \div g, s |-> ""]
Str(x) == [k |-> "str", num |-> 0, den |-> 1, s |-> x]
Timestamp(x) == [k |-> "datetime", num |-> 0, den |-> 1, s |-> x]

IsNA(x) == x.k = "na"

Range(q) == {q[i] : i \in 1..Len(q)}

\* The columns df.drop(columns=[...]) removes.
DroppedColumns ==
    << "fullAddress", "rentEstimate_lowerPrice", "rentEstimate_currentPrice",
       "rentEstimate_upperPrice", "saleEstimate_lowerPrice",
       "saleEstimate_upperPrice", "outcode", "saleEstimate_ingestedAt" >>

\* The header of data.csv: the columns the script names and one more
\* categorical column.
InputColumns ==
    << "fullAddress", "postcode", "outcode", "tenure",
       "saleEstimate_lowerPrice", "saleEstimate_currentPrice",
       "saleEstimate_upperPrice", "saleEstimate_ingestedAt",
       "saleEstimate_valueChange.saleDate", "rentEstimate_lowerPrice",
       "rentEstimate_currentPrice", "rentEstimate_upperPrice",
       "history_date" >>

\* The values a cell of each column is drawn from.
CellValues(c) ==
    CASE c = "postcode" -> {NA, Str("E1"), Str("N2")}
      [] c = "tenure" -> {NA, Str("Freehold"), Str("Leasehold")}
      [] c = "saleEstimate_currentPrice" -> {NA, Num(100, 1), Num(300, 1)}
      [] c = "saleEstimate_valueChange.saleDate" -> {NA, Str("2020-01-01")}
      [] c = "history_date" -> {Str("2019-06-30")}
      [] c \in {"fullAddress", "outcode", "saleEstimate_ingestedAt"} -> {Str("x")}
      [] OTHER -> {Num(1, 1)}

InputRows ==
    {[c \in Range(InputColumns) |->
        CASE c = "postcode" -> pc
          [] c = "tenure" -> tn
          [] c = "saleEstimate_currentPrice" -> pr
          [] c = "saleEstimate_valueChange.saleDate" -> sd
          [] c = "history_date" -> hd
          [] OTHER -> CHOOSE x \in CellValues(c) : TRUE] :
        pc \in CellValues("postcode"),
        tn \in CellValues("tenure"),
        pr \in CellValues("saleEstimate_currentPrice"),
        sd \in CellValues("saleEstimate_valueChange.saleDate"),
        hd \in CellValues("history_date")}

\* The sorted levels of a string column, and the names get_dummies gives
\* their indicator columns (prefix, "_", level).
Levels(c) ==
    CASE c = "tenure" -> << "Freehold", "Leasehold" >>
      [] c = "postcode" -> << "E1", "N2" >>
      [] c = "saleEstimate_valueChange.saleDate" -> << "2020-01-01" >>
      [] c = "history_date" -> << "2019-06-30" >>
      [] OTHER -> << "x" >>

DummyName(c, level) ==
    CASE c = "tenure" /\ level = "Freehold" -> "tenure_Freehold"
      [] c = "tenure" /\ level = "Leasehold" -> "tenure_Leasehold"
      [] c = "postcode" /\ level = "E1" -> "postcode_E1"
      [] c = "postcode" /\ level = "N2" -> "postcode_N2"
      [] c = "saleEstimate_valueChange.saleDate" -> "saleEstimate_valueChange.saleDate_2020-01-01"
      [] c = "history_date" -> "history_date_2019-06-30"
      [] c = "fullAddress" -> "fullAddress_x"
      [] c = "outcode" -> "outcode_x"
      [] OTHER -> "saleEstimate_ingestedAt_x"

EmptyFrame == [columns |-> << >>, dtypes |-> << >>, rows |-> << >>]
NoFile == [written |-> FALSE, columns |-> << >>, dtypes |-> << >>, rows |-> << >>]

Column(d, c) == [i \in 1..Len(d.rows) |-> d.rows[i].v[c]]

\* pd.read_csv: a column with no string in it is numeric, any other is object;
\* a table of no rows has object columns only.
InferDtype(rows, c) ==
    IF Len(rows) > 0 /\ \A i \in 1..Len(rows) : rows[i][c].k \in {"na", "num"}
    THEN "number" ELSE "object"

ReadCsv(rows) ==
    [columns |-> InputColumns,
     dtypes |-> [c \in Range(InputColumns) |-> InferDtype(rows, c)],
     rows |-> [i \in 1..Len(rows) |-> [index |-> i - 1, v |-> rows[i]]]]

\* df.drop(columns=cs)
DropColumns(d, cs) ==
    LET keep == {c \in Range(d.columns) : c \notin cs}
    IN  [columns |-> SelectSeq(d.columns, LAMBDA c : c \in keep),
         dtypes |-> [c \in keep |-> d.dtypes[c]],
         rows |-> [i \in 1..Len(d.rows) |->
                     [index |-> d.rows[i].index,
                      v |-> [c \in keep |-> d.rows[i].v[c]]]]]

\* df[c] = pd.to_datetime(df[c])
ToDatetime(d, c) ==
    [columns |-> d.columns,
     dtypes |-> [d.dtypes EXCEPT ![c] = "datetime"],
     rows |-> [i \in 1..Len(d.rows) |->
                 [d.rows[i] EXCEPT !.v[c] =
                     IF IsNA(@) THEN NA ELSE Timestamp(@.s)]]]

\* The number of non-missing values of a row.
NonMissing(d, r) == Cardinality({c \in Range(d.columns) : ~IsNA(r.v[c])})

\* The threshold rounded up instead of truncated.
ThreshRoundedUp(d) == (Len(d.columns) * 7 + 9) \div 10

\* int(df.shape[1] * 0.7)
Thresh(d) == (Len(d.columns) * 7) \div 10

\* Which rows dropna(thresh=t) keeps.
KeptByDropna(d, r, t) == NonMissing(d, r) >= t

\* df.dropna(thresh=t)
DropNa(d, t) ==
    [d EXCEPT !.rows = SelectSeq(d.rows, LAMBDA r : KeptByDropna(d, r, t))]

\* df.select_dtypes(include=[kind]).columns
SelectDtypes(d, kind) == SelectSeq(d.columns, LAMBDA c : d.dtypes[c] = kind)

RECURSIVE SumSeq(_)
SumSeq(q) ==
    IF q = << >> THEN Num(0, 1)
    ELSE LET x == Head(q)
             y == SumSeq(Tail(q))
         IN  Num(x.num * y.den + y.num * x.den, x.den * y.den)

\* The mean of the non-missing values of q (NA when there is none).
Mean(q) ==
    LET present == SelectSeq(q, LAMBDA x : ~IsNA(x))
        total == SumSeq(present)
    IN  IF present = << >> THEN NA
        ELSE Num(total.num, total.den * Len(present))

\* SimpleImputer(strategy='mean').fit_transform raises on a table of no rows,
\* and returns fewer columns than it was given when a column has no observed
\* value, which the assignment df[numeric_cols] = ... rejects.
ImputeRaises(d) ==
    \/ Len(d.rows) = 0
    \/ \E c \in Range(SelectDtypes(d, "number")) :
          \A i \in 1..Len(d.rows) : IsNA(d.rows[i].v[c])

\* df[numeric_cols] = num_imputer.fit_transform(df[numeric_cols])
Impute(d) ==
    LET numeric_cols == Range(SelectDtypes(d, "number"))
    IN  [d EXCEPT !.rows =
            [i \in 1..Len(d.rows) |->
                [d.rows[i] EXCEPT !.v =
                    [c \in DOMAIN @ |->
                        IF c \in numeric_cols /\ IsNA(@[c])
                        THEN Mean(Column(d, c)) ELSE @[c]]]]]

\* The mean price of the whole frame, without the grouping by postcode.
TargetMeanUngrouped(d, p) == Mean(Column(d, "saleEstimate_currentPrice"))

\* df.groupby('postcode')['saleEstimate_currentPrice'].mean(), at key p
TargetMean(d, p) ==
    Mean(SelectSeq(
            [i \in 1..Len(d.rows) |->
                IF d.rows[i].v["postcode"] = p
                THEN d.rows[i].v["saleEstimate_currentPrice"] ELSE NA],
            LAMBDA x : ~IsNA(x)))

\* df['Postcode_Encoded'] = df['postcode'].map(target_mean)
TargetEncode(d) ==
    LET cols == Range(d.columns) \cup {"Postcode_Encoded"}
    IN  [columns |-> IF "Postcode_Encoded" \in Range(d.columns) THEN d.columns
                     ELSE Append(d.columns, "Postcode_Encoded"),
         dtypes |-> [c \in cols |->
                       IF c = "Postcode_Encoded" THEN "number" ELSE d.dtypes[c]],
         rows |-> [i \in 1..Len(d.rows) |->
                     [index |-> d.rows[i].index,
                      v |-> [c \in cols |->
                               IF c # "Postcode_Encoded" THEN d.rows[i].v[c]
                               ELSE IF IsNA(d.rows[i].v["postcode"]) THEN NA
                               ELSE TargetMean(d, d.rows[i].v["postcode"])]]]]

\* get_dummies(drop_first=True): the first level gets no indicator.
LevelsPresentDropFirst(d, c) ==
    LET ls == SelectSeq(Levels(c),
                  LAMBDA l : \E i \in 1..Len(d.rows) : d.rows[i].v[c] = Str(l))
    IN  IF ls = << >> THEN ls ELSE Tail(ls)

\* The levels of column c that occur in the frame, in sorted order.
LevelsPresent(d, c) ==
    SelectSeq(Levels(c),
              LAMBDA l : \E i \in 1..Len(d.rows) : d.rows[i].v[c] = Str(l))

\* The indicator columns of the columns cs, in order: (name, source, level).
RECURSIVE Indicators(_, _)
Indicators(d, cs) ==
    IF cs = << >> THEN << >>
    ELSE LET c == Head(cs)
             ls == LevelsPresent(d, c)
         IN  [j \in 1..Len(ls) |->
                 [name |-> DummyName(c, ls[j]), of |-> c, level |-> ls[j]]]
             \o Indicators(d, Tail(cs))

\* pd.get_dummies(df, columns=cs)
GetDummies(d, cs) ==
    LET rest == SelectSeq(d.columns, LAMBDA c : c \notin Range(cs))
        ind == Indicators(d, cs)
        names == [j \in 1..Len(ind) |-> ind[j].name]
        cols == Range(rest) \cup Range(names)
        Source(c) == CHOOSE x \in Range(ind) : x.name = c
    IN  [columns |-> rest \o names,
         dtypes |-> [c \in cols |->
                       IF c \in Range(rest) THEN d.dtypes[c] ELSE "indicator"],
         rows |-> [i \in 1..Len(d.rows) |->
                     [index |-> d.rows[i].index,
                      v |-> [c \in cols |->
                               IF c \in Range(rest) THEN d.rows[i].v[c]
                               ELSE IF d.rows[i].v[Source(c).of] = Str(Source(c).level)
                                    THEN Num(1, 1) ELSE Num(0, 1)]]]]

\* df.to_csv(path, index=False): the row labels are not written.
ToCsv(d) ==
    [written |-> TRUE,
     columns |-> d.columns,
     dtypes |-> d.dtypes,
     rows |-> [i \in 1..Len(d.rows) |-> d.rows[i].v]]

----------------------------------------------------------------------------
\* The default bucket of the data-processing notebook.  A key is the sequence
\* of its '/'-separated parts.

\* Key given to upload_file in Step 4: 'input/data.csv'.
UploadKey == <<"input", "data.csv">>

\* input_raw_data_prefix = "input/", output_preprocessed_data_prefix = "output"
input_raw_data_prefix == <<"input">>
output_preprocessed_data_prefix == <<"output">>

\* os.path.join of key parts.
PathJoin(a, b) == a \o b

\* ProcessingInput(source=...): the key the job downloads to
\* /opt/ml/processing/input.
ProcessingInputSource == PathJoin(input_raw_data_prefix, <<"data.csv">>)

\* ProcessingOutput(destination=...): the prefix the job uploads
\* /opt/ml/processing/output to.
ProcessingOutputDestination ==
    PathJoin(output_preprocessed_data_prefix, <<"data-processed">>)

\* The key the file processed.csv of /opt/ml/processing/output is uploaded to.
ProcessedKey == PathJoin(ProcessingOutputDestination, <<"processed.csv">>)

\* Key read in Step 6: 'output/data-processed/processed.csv'.
ValidatedKey == <<"output", "data-processed", "processed.csv">>

Keys == {UploadKey, ProcessingInputSource, ProcessedKey, ValidatedKey}

\* An object of the bucket: who put it and its content (a table for the raw
\* data, a written file for the processed data).
NoObject == [exists |-> FALSE, by |-> "none", body |-> << >>]
EarlierObject == [exists |-> TRUE, by |-> "earlier run", body |-> << >>]
PutObject(who, content) == [exists |-> TRUE, by |-> who, body |-> content]

EmptyBucket == [k \in Keys |-> NoObject]

----------------------------------------------------------------------------
\* In-order execution of the cells.

Running(c) == run = "running" /\ cell <= Len(Cells) /\ Cells[cell] = c

\* The cell ran to its last statement: the run moves to the next cell.
Completes ==
    /\ done' = done \cup {Cells[cell]}
    /\ cell' = cell + 1
    /\ run' = IF cell = Len(Cells) THEN "finished" ELSE "running"
    /\ at' = "start"

\* An exception left the cell: the in-order run ends there.
Raises ==
    /\ run' = "failed"
    /\ UNCHANGED <<cell, done, at>>

Say(msgs) == printed' = printed \cup msgs
Calls(op) == issued' = issued \cup {op}

Init ==
    /\ cell = 1
    /\ at = "start"
    /\ run = "running"
    /\ printed = {}
    /\ issued = {}
    /\ done = {}
    /\ model_package = NoPackage
    /\ latest_model_package_arn = NoPackage
    /\ lastDescribe = "none"
    /\ invokedAt = "none"
    /\ models = {}
    /\ groupExists \in BOOLEAN
    /\ \E n \in 0..MaxPreexisting :
          /\ (n > 0 => groupExists)
          /\ \E st \in [1..n -> ApprovalStatuses] :
                packages = [v \in 1..n |-> [status |-> st[v], created |-> v]]
    /\ endpointConfig = NoConfig
    /\ endpoint = NoEndpoint
    /\ input = << >>
    /\ df = EmptyFrame
    /\ spc = "not_started"
    /\ out = NoFile
    /\ lcell = 1
    /\ lrun = "running"
    /\ ldone = {}
    /\ bucket = EmptyBucket
    /\ job = "none"
    /\ df_cleaned = NoObject

\* Step 1: imports, session, role, default bucket.
Setup ==
    /\ Running("setup")
    /\ Say({"role"})
    /\ Completes
    /\ UNCHANGED <<issued, model_package, latest_model_package_arn,
                   lastDescribe, invokedAt, svcVars>>
    /\ UNCHANGED <<scVars, labVars>>

\* Step 2: upload the artifact, build the Model and model.create().
ModelCreate ==
    /\ Running("model_create")
    /\ Calls("create_model")
    /\ \E r \in {"ok", OtherError} :
          IF r = "ok"
          THEN /\ models' = models \cup
                      {[ModelName |-> model_name, ModelPackage |-> NoPackage]}
               /\ Say({"File uploaded to", "Image URI"})
               /\ Completes
          ELSE /\ Say({"File uploaded to", "Image URI"})
               /\ Raises
               /\ UNCHANGED models
    /\ UNCHANGED <<model_package, latest_model_package_arn, lastDescribe,
                   invokedAt, groupExists, packages, endpointConfig, endpoint>>
    /\ UNCHANGED <<scVars, labVars>>

\* Step 2 (second): create_model_package_group, ResourceInUse caught.
CreateModelPackageGroup ==
    /\ Running("create_group")
    /\ Calls("create_model_package_group")
    /\ \E r \in {IF groupExists THEN "ResourceInUse" ELSE "ok", OtherError} :
          CASE r = "ok" ->
                  /\ groupExists' = TRUE
                  /\ Say({"Created Model Package Group"})
                  /\ Completes
            [] r = "ResourceInUse" ->
                  /\ Say({"Model Package Group already exists."})
                  /\ Completes
                  /\ UNCHANGED groupExists
            [] OTHER ->
                  /\ Raises
                  /\ UNCHANGED <<groupExists, printed>>
    /\ UNCHANGED <<model_package, latest_model_package_arn, lastDescribe,
                   invokedAt, models, packages, endpointConfig, endpoint>>
    /\ UNCHANGED <<scVars, labVars>>

\* Step 3: model.register(..., approval_status=model_approval_status).
Register ==
    /\ Running("register")
    /\ Calls("create_model_package")
    /\ \E r \in {IF groupExists THEN "ok" ELSE "ValidationException", OtherError} :
          IF r = "ok"
          THEN /\ packages' = Append(packages,
                      [status |-> model_approval_status,
                       created |-> Len(packages) + 1])
               /\ model_package' = Len(packages) + 1
               /\ Say({"Model package version ARN"})
               /\ Completes
          ELSE /\ Raises
               /\ UNCHANGED <<packages, model_package, printed>>
    /\ UNCHANGED <<latest_model_package_arn, lastDescribe, invokedAt, models,
                   groupExists, endpointConfig, endpoint>>
    /\ UNCHANGED <<scVars, labVars>>

\* Step 4: list_model_packages(Approved, CreationTime, Descending), then [0].
Retrieve ==
    /\ Running("retrieve")
    /\ Calls("list_model_packages")
    /\ \E r \in {"ok", OtherError} :
          LET summaries == ModelPackageSummaryList("Approved")
          IN  IF r = "ok" /\ summaries # << >>
              THEN /\ latest_model_package_arn' = summaries[1]
                   /\ Say({"Latest Approved Model Package ARN"})
                   /\ Completes
              ELSE \* the service error, or IndexError on the empty list
                   /\ Raises
                   /\ UNCHANGED <<latest_model_package_arn, printed>>
    /\ UNCHANGED <<model_package, lastDescribe, invokedAt, svcVars>>
    /\ UNCHANGED <<scVars, labVars>>

\* Step 5: create_endpoint_config with ModelName=model_name.
CreateEndpointConfig ==
    /\ Running("create_config")
    /\ Calls("create_endpoint_config")
    /\ \E r \in {IF /\ endpointConfig = NoConfig
                    /\ \E m \in models : m.ModelName = model_name
                 THEN "ok" ELSE "ValidationException", OtherError} :
          IF r = "ok"
          THEN /\ endpointConfig' =
                      [EndpointConfigName |-> endpoint_config_name,
                       ModelName |-> model_name]
               /\ Say({"Endpoint configuration created"})
               /\ Completes
          ELSE /\ Raises
               /\ UNCHANGED <<endpointConfig, printed>>
    /\ UNCHANGED <<model_package, latest_model_package_arn, lastDescribe,
                   invokedAt, models, groupExists, packages, endpoint>>
    /\ UNCHANGED <<scVars, labVars>>

\* Step 6: create_endpoint returns as soon as the service accepts the request.
CreateEndpoint ==
    /\ Running("create_endpoint")
    /\ Calls("create_endpoint")
    /\ \E r \in {IF endpoint = NoEndpoint /\ endpointConfig # NoConfig
                 THEN "ok" ELSE "ValidationException", OtherError} :
          IF r = "ok"
          THEN /\ endpoint' = [EndpointName |-> endpoint_name,
                               EndpointConfigName |-> endpoint_config_name,
                               status |-> "Creating"]
               /\ Say({"Creating endpoint"})
               /\ Completes
          ELSE /\ Raises
               /\ UNCHANGED <<endpoint, printed>>
    /\ UNCHANGED <<model_package, latest_model_package_arn, lastDescribe,
                   invokedAt, models, groupExists, packages, endpointConfig>>
    /\ UNCHANGED <<scVars, labVars>>

\* Test the endpoint: invoke_endpoint, served only by an InService endpoint.
InvokeEndpoint ==
    /\ Running("invoke")
    /\ Calls("invoke_endpoint")
    /\ invokedAt' = endpoint.status
    /\ \E r \in {IF endpoint.status = "InService" THEN "ok"
                 ELSE "ValidationError", OtherError} :
          IF r = "ok"
          THEN /\ Say({"Predicted house price"})
               /\ Completes
          ELSE /\ Raises
               /\ UNCHANGED printed
    /\ UNCHANGED <<model_package, latest_model_package_arn, lastDescribe,
                   svcVars>>
    /\ UNCHANGED <<scVars, labVars>>

----------------------------------------------------------------------------
\* The Clean Up cell.

\* Step 1: delete_endpoint; an error here is not caught.
DeleteEndpoint ==
    /\ Running("cleanup") /\ at = "start"
    /\ Calls("delete_endpoint")
    /\ Say({"Deleting endpoint"})
    /\ \E r \in {IF endpoint.status \in {"InService", "Failed"} THEN "ok"
                 ELSE "ValidationException", OtherError} :
          IF r = "ok"
          THEN /\ endpoint' = [endpoint EXCEPT !.status = "Deleting"]
               /\ at' = "describe"
               /\ UNCHANGED <<cell, run, done>>
          ELSE /\ Raises
               /\ UNCHANGED endpoint
    /\ UNCHANGED <<model_package, latest_model_package_arn, lastDescribe,
                   invokedAt, models, groupExists, packages, endpointConfig>>
    /\ UNCHANGED <<scVars, labVars>>

\* The wait loop ended by any ClientError.
WaitLoopBreaksOnAnyError(code) == TRUE

\* The wait loop testing for a code describe_endpoint does not answer with.
WaitLoopBreaksOnResourceNotFound(code) == code = "ResourceNotFound"

\* The wait loop with the test of the error code inverted.
WaitLoopBreaksUnlessValidation(code) == code # "ValidationException"

\* The except clause of the wait loop: which error codes end the loop.
WaitLoopBreaks(code) == code = "ValidationException"

\* One pass of the wait loop whose describe_endpoint call answers r.
DescribeEndpoint(r) ==
    /\ Running("cleanup") /\ at = "describe"
    /\ r \in DescribeOutcomes
    /\ Calls("describe_endpoint")
    /\ lastDescribe' = r
    /\ IF r = "ok"
       THEN /\ Say({"Endpoint is still being deleted. Waiting..."})
            /\ at' = "sleep"
       ELSE IF WaitLoopBreaks(r)
            THEN /\ Say({"Endpoint deleted successfully."})
                 /\ at' = "delete_config"
            ELSE \* swallowed: the loop calls describe_endpoint again
                 /\ UNCHANGED <<printed, at>>
    /\ UNCHANGED <<cell, run, done, model_package, latest_model_package_arn,
                   invokedAt, svcVars>>
    /\ UNCHANGED <<scVars, labVars>>

WaitLoop == \E r \in {"ok", "ValidationException", OtherError} : DescribeEndpoint(r)

\* time.sleep(30) after a describe call that succeeded.
Sleep ==
    /\ Running("cleanup") /\ at = "sleep"
    /\ at' = "describe"
    /\ UNCHANGED <<cell, run, done, printed, issued, model_package,
                   latest_model_package_arn, lastDescribe, invokedAt, svcVars>>
    /\ UNCHANGED <<scVars, labVars>>

\* Step 2: delete_endpoint_config inside try/except ClientError.
DeleteEndpointConfig ==
    /\ Running("cleanup") /\ at = "delete_config"
    /\ Calls("delete_endpoint_config")
    /\ \E r \in {IF endpointConfig # NoConfig THEN "ok"
                 ELSE "ValidationException", OtherError} :
          CASE r = "ok" ->
                  /\ endpointConfig' = NoConfig
                  /\ Say({"Deleting endpoint configuration",
                          "Endpoint configuration deleted successfully."})
            [] r = "ValidationException" ->
                  /\ Say({"Deleting endpoint configuration",
                          "Endpoint configuration not found or already deleted."})
                  /\ UNCHANGED endpointConfig
            [] OTHER ->
                  \* caught, and nothing is done about it
                  /\ Say({"Deleting endpoint configuration"})
                  /\ UNCHANGED endpointConfig
    /\ at' = "complete"
    /\ UNCHANGED <<cell, run, done, model_package, latest_model_package_arn,
                   lastDescribe, invokedAt, models, groupExists, packages,
                   endpoint>>
    /\ UNCHANGED <<scVars, labVars>>

\* The last statement of the cell.
CleanupComplete ==
    /\ Running("cleanup") /\ at = "complete"
    /\ Say({"Cleanup complete."})
    /\ Completes
    /\ UNCHANGED <<issued, model_package, latest_model_package_arn,
                   lastDescribe, invokedAt, svcVars>>
    /\ UNCHANGED <<scVars, labVars>>

----------------------------------------------------------------------------
\* The environment: the service's asynchronous work and the console user.

\* "Change the status from Pending approval to Approved" in the Studio
\* console; the drop down offers every approval status.
ManualApproval ==
    /\ \E v \in 1..Len(packages), s \in ApprovalStatuses :
          /\ packages[v].status # s
          /\ packages' = [packages EXCEPT ![v].status = s]
    /\ UNCHANGED <<nbVars, models, groupExists, endpointConfig, endpoint>>
    /\ UNCHANGED <<scVars, labVars>>

\* "This can take up to 10minutes to create and be reported as InService."
EndpointInService ==
    /\ endpoint.status = "Creating"
    /\ endpoint' = [endpoint EXCEPT !.status = "InService"]
    /\ UNCHANGED <<nbVars, models, groupExists, packages, endpointConfig>>
    /\ UNCHANGED <<scVars, labVars>>

\* Creation may also end in the Failed status.
EndpointCreationFails ==
    /\ endpoint.status = "Creating"
    /\ endpoint' = [endpoint EXCEPT !.status = "Failed"]
    /\ UNCHANGED <<nbVars, models, groupExists, packages, endpointConfig>>
    /\ UNCHANGED <<scVars, labVars>>

\* "Endpoint is still being deleted": the service removes it in its own time.
EndpointRemoved ==
    /\ endpoint.status = "Deleting"
    /\ endpoint' = NoEndpoint
    /\ UNCHANGED <<nbVars, models, groupExists, packages, endpointConfig>>
    /\ UNCHANGED <<scVars, labVars>>

\* "Endpoint configuration not found or already deleted": someone else may
\* delete the configuration.
ConfigDeletedElsewhere ==
    /\ endpointConfig # NoConfig
    /\ endpointConfig' = NoConfig
    /\ UNCHANGED <<nbVars, models, groupExists, packages, endpoint>>
    /\ UNCHANGED <<scVars, labVars>>

Notebook ==
    \/ Setup
    \/ ModelCreate
    \/ CreateModelPackageGroup
    \/ Register
    \/ Retrieve
    \/ CreateEndpointConfig
    \/ CreateEndpoint
    \/ InvokeEndpoint
    \/ DeleteEndpoint
    \/ WaitLoop
    \/ Sleep
    \/ DeleteEndpointConfig
    \/ CleanupComplete

Service ==
    \/ ManualApproval
    \/ EndpointInService
    \/ EndpointCreationFails
    \/ EndpointRemoved
    \/ ConfigDeletedElsewhere

Next == Notebook \/ Service

Spec == Init /\ [][Next]_vars

\* The kernel keeps executing the Clean Up cell, the service finishes the
\* deletion it accepted, and a describe_endpoint call on the removed endpoint
\* eventually answers ValidationException.
LiveSpec ==
    /\ Spec
    /\ WF_vars(Sleep)
    /\ WF_vars(DeleteEndpointConfig)
    /\ WF_vars(CleanupComplete)
    /\ WF_vars(EndpointRemoved)
    /\ WF_vars(DescribeEndpoint("ValidationException"))

----------------------------------------------------------------------------
\* preprocessing_script.py, statement by statement.

ScriptInit ==
    /\ cell = 1
    /\ at = "start"
    /\ run = "running"
    /\ printed = {}
    /\ issued = {}
    /\ done = {}
    /\ model_package = NoPackage
    /\ latest_model_package_arn = NoPackage
    /\ lastDescribe = "none"
    /\ invokedAt = "none"
    /\ models = {}
    /\ groupExists = FALSE
    /\ packages = << >>
    /\ endpointConfig = NoConfig
    /\ endpoint = NoEndpoint
    /\ \E n \in 0..MaxRows : input \in [1..n -> InputRows]
    /\ df = EmptyFrame
    /\ spc = "read_csv"
    /\ out = NoFile
    /\ lcell = 1
    /\ lrun = "running"
    /\ ldone = {}
    /\ bucket = EmptyBucket
    /\ job = "none"
    /\ df_cleaned = NoObject

\* df = pd.read_csv('/opt/ml/processing/input/data.csv')
LoadDataset ==
    /\ spc = "read_csv"
    /\ df' = ReadCsv(input)
    /\ spc' = "drop_columns"
    /\ UNCHANGED <<input, out>>
    /\ UNCHANGED <<nbVars, svcVars, labVars>>

\* df = df.drop(columns=[...])
RemoveUnnecessaryData ==
    /\ spc = "drop_columns"
    /\ df' = DropColumns(df, Range(DroppedColumns))
    /\ spc' = "to_datetime_saleDate"
    /\ UNCHANGED <<input, out>>
    /\ UNCHANGED <<nbVars, svcVars, labVars>>

CorrectSaleDate ==
    /\ spc = "to_datetime_saleDate"
    /\ df' = ToDatetime(df, "saleEstimate_valueChange.saleDate")
    /\ spc' = "to_datetime_history_date"
    /\ UNCHANGED <<input, out>>
    /\ UNCHANGED <<nbVars, svcVars, labVars>>

CorrectHistoryDate ==
    /\ spc = "to_datetime_history_date"
    /\ df' = ToDatetime(df, "history_date")
    /\ spc' = "dropna"
    /\ UNCHANGED <<input, out>>
    /\ UNCHANGED <<nbVars, svcVars, labVars>>

\* df = df.dropna(thresh=int(df.shape[1] * 0.7))
RemoveRows ==
    /\ spc = "dropna"
    /\ df' = DropNa(df, Thresh(df))
    /\ spc' = "impute"
    /\ UNCHANGED <<input, out>>
    /\ UNCHANGED <<nbVars, svcVars, labVars>>

\* numeric_cols = ...; df[numeric_cols] = num_imputer.fit_transform(...)
ImputeMissing ==
    /\ spc = "impute"
    /\ IF ImputeRaises(df)
       THEN spc' = "error" /\ UNCHANGED df
       ELSE spc' = "target_encode" /\ df' = Impute(df)
    /\ UNCHANGED <<input, out>>
    /\ UNCHANGED <<nbVars, svcVars, labVars>>

\* target_mean = ...; df['Postcode_Encoded'] = df['postcode'].map(target_mean)
TargetEncoding ==
    /\ spc = "target_encode"
    /\ df' = TargetEncode(df)
    /\ spc' = "drop_postcode"
    /\ UNCHANGED <<input, out>>
    /\ UNCHANGED <<nbVars, svcVars, labVars>>

\* df = df.drop(columns=['postcode'])
DropPostcode ==
    /\ spc = "drop_postcode"
    /\ df' = DropColumns(df, {"postcode"})
    /\ spc' = "get_dummies"
    /\ UNCHANGED <<input, out>>
    /\ UNCHANGED <<nbVars, svcVars, labVars>>

\* categorical_cols = ...; df = pd.get_dummies(df, columns=categorical_cols)
EncodeCategorical ==
    /\ spc = "get_dummies"
    /\ df' = GetDummies(df, SelectDtypes(df, "object"))
    /\ spc' = "to_csv"
    /\ UNCHANGED <<input, out>>
    /\ UNCHANGED <<nbVars, svcVars, labVars>>

\* df.to_csv('/opt/ml/processing/output/processed.csv', index=False)
SaveProcessed ==
    /\ spc = "to_csv"
    /\ out' = ToCsv(df)
    /\ spc' = "exit"
    /\ UNCHANGED <<input, df>>
    /\ UNCHANGED <<nbVars, svcVars, labVars>>

Script ==
    \/ LoadDataset
    \/ RemoveUnnecessaryData
    \/ CorrectSaleDate
    \/ CorrectHistoryDate
    \/ RemoveRows
    \/ ImputeMissing
    \/ TargetEncoding
    \/ DropPostcode
    \/ EncodeCategorical
    \/ SaveProcessed

ScriptNext == Script

ScriptSpec == ScriptInit /\ [][ScriptNext]_vars

----------------------------------------------------------------------------
\* The data-processing notebook: cells, bucket and processing job.

LabCells == <<"setup", "explore", "writefile", "upload", "run", "validate">>

LabRunning(c) == lrun = "running" /\ lcell <= Len(LabCells) /\ LabCells[lcell] = c

LabCompletes ==
    /\ ldone' = ldone \cup {LabCells[lcell]}
    /\ lcell' = lcell + 1
    /\ lrun' = IF lcell = Len(LabCells) THEN "finished" ELSE "running"

LabRaises ==
    /\ lrun' = "failed"
    /\ UNCHANGED <<lcell, ldone>>

\* Kernel start; the default bucket may hold objects of an earlier run of
\* the notebook under the same keys.
LabInit ==
    /\ cell = 1
    /\ at = "start"
    /\ run = "running"
    /\ printed = {}
    /\ issued = {}
    /\ done = {}
    /\ model_package = NoPackage
    /\ latest_model_package_arn = NoPackage
    /\ lastDescribe = "none"
    /\ invokedAt = "none"
    /\ models = {}
    /\ groupExists = FALSE
    /\ packages = << >>
    /\ endpointConfig = NoConfig
    /\ endpoint = NoEndpoint
    /\ input = << >>
    /\ df = EmptyFrame
    /\ spc = "not_started"
    /\ out = NoFile
    /\ lcell = 1
    /\ lrun = "running"
    /\ ldone = {}
    /\ bucket \in [Keys -> {NoObject, EarlierObject}]
    /\ job = "none"
    /\ df_cleaned = NoObject

\* Step 1: imports, session, role, default bucket.
LabSetup ==
    /\ LabRunning("setup")
    /\ LabCompletes
    /\ UNCHANGED <<bucket, job, df_cleaned>>
    /\ UNCHANGED <<nbVars, svcVars, scVars>>

\* Step 2: df = pd.read_csv(<local file>); print(df.head())
Explore ==
    /\ LabRunning("explore")
    /\ LabCompletes
    /\ UNCHANGED <<bucket, job, df_cleaned>>
    /\ UNCHANGED <<nbVars, svcVars, scVars>>

\* Step 3: %%writefile preprocessing_script.py
WriteScript ==
    /\ LabRunning("writefile")
    /\ LabCompletes
    /\ UNCHANGED <<bucket, job, df_cleaned>>
    /\ UNCHANGED <<nbVars, svcVars, scVars>>

\* Step 4: upload_file(<local file>, bucket, 'input/data.csv'); the local
\* file holds any table within the bounds.
UploadFile ==
    /\ LabRunning("upload")
    /\ \E r \in {"ok", OtherError} :
          IF r = "ok"
          THEN /\ \E n \in 0..MaxRows : \E rows \in [1..n -> InputRows] :
                     bucket' = [bucket EXCEPT
                                   ![UploadKey] = PutObject("upload_file", rows)]
               /\ LabCompletes
          ELSE /\ LabRaises
               /\ UNCHANGED bucket
    /\ UNCHANGED <<job, df_cleaned>>
    /\ UNCHANGED <<nbVars, svcVars, scVars>>

\* processor.run(..., wait=False): the call returns once the job is created.
ProcessorRunWaitFalse == FALSE

\* processor.run(...): wait is left at its default, True.
ProcessorRunWait == TRUE

\* Step 5: processor.run(...) creates the processing job.
ProcessorRun ==
    /\ LabRunning("run")
    /\ job = "none"
    /\ \E r \in {"ok", OtherError} :
          IF r = "ok"
          THEN /\ job' = "InProgress"
               /\ IF ProcessorRunWait
                  THEN UNCHANGED <<lcell, lrun, ldone>>
                  ELSE LabCompletes
          ELSE /\ LabRaises
               /\ UNCHANGED job
    /\ UNCHANGED <<bucket, df_cleaned>>
    /\ UNCHANGED <<nbVars, svcVars, scVars>>

\* Step 5: processor.run(...) waiting returns when the job has completed
\* and raises when the job has failed.
ProcessorRunReturns ==
    /\ LabRunning("run")
    /\ job \in {"Completed", "Failed"}
    /\ IF job = "Completed" THEN LabCompletes ELSE LabRaises
    /\ UNCHANGED <<bucket, job, df_cleaned>>
    /\ UNCHANGED <<nbVars, svcVars, scVars>>

\* Step 6: df_cleaned = pd.read_csv('s3://<bucket>/output/data-processed/
\* processed.csv'); a missing object raises.
Validate ==
    /\ LabRunning("validate")
    /\ IF bucket[ValidatedKey].exists
       THEN /\ df_cleaned' = bucket[ValidatedKey]
            /\ LabCompletes
       ELSE /\ LabRaises
            /\ UNCHANGED df_cleaned
    /\ UNCHANGED <<bucket, job>>
    /\ UNCHANGED <<nbVars, svcVars, scVars>>

\* The job downloads its input to /opt/ml/processing/input/data.csv and
\* starts the script; it fails when the source object does not exist.
JobDownloadsInput ==
    /\ job = "InProgress"
    /\ spc = "not_started"
    /\ IF bucket[ProcessingInputSource].exists
       THEN /\ input' = bucket[ProcessingInputSource].body
            /\ spc' = "read_csv"
            /\ UNCHANGED job
       ELSE /\ job' = "Failed"
            /\ UNCHANGED <<input, spc>>
    /\ UNCHANGED <<df, out>>
    /\ UNCHANGED <<lcell, lrun, ldone, bucket, df_cleaned>>
    /\ UNCHANGED <<nbVars, svcVars>>

\* The script has exited normally: the job uploads /opt/ml/processing/output
\* to the output destination and completes.
JobUploadsOutput ==
    /\ job = "InProgress"
    /\ spc = "exit"
    /\ bucket' = [bucket EXCEPT
                     ![ProcessedKey] = PutObject("processing job", out)]
    /\ job' = "Completed"
    /\ UNCHANGED <<lcell, lrun, ldone, df_cleaned>>
    /\ UNCHANGED <<nbVars, svcVars, scVars>>

\* The script has raised: the job fails and uploads nothing.
JobFails ==
    /\ job = "InProgress"
    /\ spc = "error"
    /\ job' = "Failed"
    /\ UNCHANGED <<lcell, lrun, ldone, bucket, df_cleaned>>
    /\ UNCHANGED <<nbVars, svcVars, scVars>>

LabNotebook ==
    \/ LabSetup
    \/ Explore
    \/ WriteScript
    \/ UploadFile
    \/ ProcessorRun
    \/ ProcessorRunReturns
    \/ Validate

ProcessingJob ==
    \/ JobDownloadsInput
    \/ Script
    \/ JobUploadsOutput
    \/ JobFails

LabNext == LabNotebook \/ ProcessingJob

Lab3Spec == LabInit /\ [][LabNext]_vars


----------------------------------------------------------------------------
\* Properties of the deployment notebook.

\* C1: 'Endpoint deleted successfully.' is printed, and delete_endpoint_config
\* is issued, only after a describe_endpoint call that raised a ClientError
\* with code ValidationException, and never while the latest describe call
\* succeeded (or failed with another code).
C1_LoopExitsOnlyOnNotFound ==
    ( \/ "Endpoint deleted successfully." \in printed
      \/ "delete_endpoint_config" \in issued
      \/ "Cleanup complete." \in printed )
        => lastDescribe = "ValidationException"

C1_Witness ==
    /\ "Endpoint deleted successfully." \in printed
    /\ "delete_endpoint_config" \in issued
    /\ "Endpoint is still being deleted. Waiting..." \in printed

\* C2: once delete_endpoint has succeeded, and given that the service removes
\* the endpoint and describe_endpoint then answers ValidationException, the
\* wait loop exits, delete_endpoint_config is attempted and
\* 'Cleanup complete.' is printed.
C2_CleanupTerminates ==
    (Running("cleanup") /\ at = "describe")
        ~> ( /\ "Endpoint deleted successfully." \in printed
             /\ "delete_endpoint_config" \in issued
             /\ "Cleanup complete." \in printed )

C2_Witness ==
    /\ run = "finished"
    /\ "Cleanup complete." \in printed
    /\ "Endpoint is still being deleted. Waiting..." \in printed
    /\ "delete_endpoint_config" \in issued

\* C3: no invoke_endpoint call is issued while the endpoint is not InService
\* (in particular not while it is still Creating).
C3_InvokeOnlyWhenInService == invokedAt \in {"none", "InService"}

\* C4: the endpoint configuration exists only for a model whose registered
\* package is no longer PendingManualApproval, and the model it deploys is
\* the approved package retrieved in Step 4.
C4_DeploysApprovedPackage ==
    endpointConfig # NoConfig =>
        /\ model_package # NoPackage
        /\ packages[model_package].status # "PendingManualApproval"
        /\ DeployedPackage = latest_model_package_arn

\* C5: once 'Cleanup complete.' is printed, neither the endpoint nor the
\* endpoint configuration exists.
C5_CleanupRemovesBoth ==
    "Cleanup complete." \in printed =>
        /\ endpoint = NoEndpoint
        /\ endpointConfig = NoConfig

\* C10: a call that names a resource is issued only after the cell whose call
\* creates that resource has completed: create_endpoint_config after
\* model.create(), model.register after the create_model_package_group step,
\* create_endpoint after create_endpoint_config, invoke_endpoint and
\* delete_endpoint after create_endpoint.
C10_DependencyOrder ==
    /\ "create_endpoint_config" \in issued =>
          /\ "model_create" \in done
          /\ \E m \in models : m.ModelName = model_name
    /\ "create_model_package" \in issued =>
          /\ "create_group" \in done
          /\ groupExists
    /\ "create_endpoint" \in issued =>
          /\ "create_config" \in done
          /\ "Endpoint configuration created" \in printed
    /\ "invoke_endpoint" \in issued =>
          /\ "create_endpoint" \in done
          /\ "Creating endpoint" \in printed
    /\ "delete_endpoint" \in issued =>
          /\ "create_endpoint" \in done
          /\ "Creating endpoint" \in printed

C10_Witness ==
    /\ {"create_endpoint_config", "create_model_package", "create_endpoint",
        "invoke_endpoint", "delete_endpoint"} \subseteq issued
    /\ endpoint.status = "Deleting"

\* C11: whenever the retrieval step completes, latest_model_package_arn is
\* the package of the group that is Approved and has the greatest creation
\* time among the Approved ones, so a package with another approval status is
\* never selected; the step does not complete while the group holds no
\* Approved package, and when it fails no ARN is set.
C11_RetrievesLatestApproved ==
    [][ /\ ("retrieve" \notin done /\ "retrieve" \in done') =>
              /\ latest_model_package_arn' \in 1..Len(packages)
              /\ packages[latest_model_package_arn'].status = "Approved"
              /\ \A v \in 1..Len(packages) :
                     packages[v].status = "Approved" =>
                         packages[v].created
                             <= packages[latest_model_package_arn'].created
        /\ ( /\ Running("retrieve")
             /\ \A v \in 1..Len(packages) : packages[v].status # "Approved" )
              => "retrieve" \notin done'
        /\ (Running("retrieve") /\ run' = "failed") =>
              /\ "list_model_packages" \in issued'
              /\ latest_model_package_arn' = NoPackage
      ]_vars

C11_Witness ==
    /\ "retrieve" \in done
    /\ Len(packages) = 2
    /\ \A v \in 1..2 : packages[v].status = "Approved"
    /\ packages[1].created < packages[2].created
    /\ latest_model_package_arn = 2

\* C12: in the wait loop a describe_endpoint call that raises a ClientError
\* with a code other than ValidationException neither ends the loop nor
\* propagates: nothing is printed, the run goes on in the same cell, and the
\* next step of the loop is another describe_endpoint call, not the sleep; so
\* the loop is not left as long as the describe calls fail with such a code.
C12_OtherErrorSwallowed ==
    [][ (Running("cleanup") /\ at = "describe" /\ lastDescribe' = OtherError)
            => /\ at' = "describe"
               /\ run' = "running"
               /\ cell' = cell
               /\ printed' = printed
               /\ "describe_endpoint" \in issued'
      ]_vars

C12_Witness ==
    /\ Running("cleanup")
    /\ at = "describe"
    /\ lastDescribe = OtherError
    /\ "Endpoint is still being deleted. Waiting..." \in printed
    /\ "Endpoint deleted successfully." \notin printed

----------------------------------------------------------------------------
\* Properties of preprocessing_script.py.

\* The table written to processed.csv exists.
Written == spc = "exit" /\ out.written

\* The input row a row of the frame comes from.
Origin(r) == input[r.index + 1]

\* C6: no numeric column of the table written to processed.csv holds a
\* missing value, Postcode_Encoded included.
C6_NoMissingNumeric ==
    Written =>
        \A i \in 1..Len(out.rows) : \A c \in Range(out.columns) :
            out.dtypes[c] \in {"number", "indicator"} => ~IsNA(out.rows[i][c])

\* C7: with C the number of columns left after the eight fixed columns are
\* dropped, the rows of the frame from dropna on, and of the written table,
\* are exactly the input rows with at least int(0.7 * C) non-missing values
\* among those C columns, in their input order.
C7_Columns == {c \in Range(InputColumns) : c \notin Range(DroppedColumns)}

C7_Retained ==
    SelectSeq([i \in 1..Len(input) |-> i - 1],
              LAMBDA n :
                  Cardinality({c \in C7_Columns : ~IsNA(input[n + 1][c])})
                      >= (7 * Cardinality(C7_Columns)) \div 10)

\* C7: the retained rows are exactly C7_Retained, in input order, from dropna
\* to the written table.
C7_RowsRetained ==
    /\ spc \in {"impute", "target_encode", "drop_postcode", "get_dummies",
                "to_csv", "exit", "error"}
          => [i \in 1..Len(df.rows) |-> df.rows[i].index] = C7_Retained
    /\ Written => Len(out.rows) = Len(C7_Retained)

C7_Witness ==
    /\ Written
    /\ Len(input) = 2
    /\ Len(out.rows) = 1
    /\ df.rows[1].index = 1

\* C8: the encoding step leaves no object column; each object column is
\* replaced by one indicator column per distinct value it holds; in each row
\* exactly one indicator of a column is set when its value was present and
\* none when it was missing; the other columns and the rows are unchanged;
\* and the written table has no object column.
C8_Encoded(d, e) ==
    LET cats == {c \in Range(d.columns) : d.dtypes[c] = "object"}
        rest == Range(d.columns) \ cats
        Held(c) == {l \in Range(Levels(c)) :
                       \E i \in 1..Len(d.rows) : d.rows[i].v[c] = Str(l)}
        Ind(c) == {DummyName(c, l) : l \in Held(c)}
    IN  /\ \A c \in Range(e.columns) : e.dtypes[c] # "object"
        /\ Range(e.columns) = rest \cup UNION {Ind(c) : c \in cats}
        /\ Len(e.columns) = Cardinality(rest)
                              + Cardinality(UNION {{<<c, l>> : l \in Held(c)} : c \in cats})
        /\ Len(e.rows) = Len(d.rows)
        /\ \A i \in 1..Len(d.rows) :
              /\ e.rows[i].index = d.rows[i].index
              /\ \A c \in rest :
                    /\ e.rows[i].v[c] = d.rows[i].v[c]
                    /\ e.dtypes[c] = d.dtypes[c]
              /\ \A c \in cats :
                    LET set == {l \in Held(c) :
                                   e.rows[i].v[DummyName(c, l)] = Num(1, 1)}
                    IN  /\ \A l \in Held(c) :
                              e.rows[i].v[DummyName(c, l)] \in {Num(0, 1), Num(1, 1)}
                        /\ IF IsNA(d.rows[i].v[c]) THEN set = {}
                           ELSE set = {d.rows[i].v[c].s}

\* C8: the get_dummies step satisfies C8_Encoded, and the table written has
\* no object column and the columns and rows of the encoded frame.
C8_CategoricalEncoded ==
    [][ /\ spc = "get_dummies" /\ spc' = "to_csv" => C8_Encoded(df, df')
        /\ spc' = "exit" =>
              /\ \A c \in Range(out'.columns) : out'.dtypes[c] # "object"
              /\ out'.columns = df.columns
              /\ Len(out'.rows) = Len(df.rows) ]_vars

C8_Witness ==
    /\ Written
    /\ "tenure_Freehold" \in Range(out.columns)
    /\ "tenure" \notin Range(out.columns)
    /\ \E i, j \in 1..Len(out.rows) :
          /\ out.rows[i]["tenure_Freehold"] = Num(1, 1)
          /\ out.rows[j]["tenure_Freehold"] = Num(0, 1)
          /\ IsNA(Origin(df.rows[j])["tenure"])

\* C9: for every retained row with a non-missing postcode, Postcode_Encoded
\* is the mean of saleEstimate_currentPrice, after mean imputation, over the
\* retained rows with the same postcode; rows with equal postcode get equal
\* Postcode_Encoded; and the written table has no 'postcode' column.
C9_ImputedPrice(r) ==
    IF ~IsNA(Origin(r)["saleEstimate_currentPrice"])
    THEN Origin(r)["saleEstimate_currentPrice"]
    ELSE Mean([j \in 1..Len(df.rows) |->
                  Origin(df.rows[j])["saleEstimate_currentPrice"]])

\* C9: Postcode_Encoded is the per-postcode mean of the imputed price over
\* the retained rows, equal for equal postcodes, and 'postcode' is not written.
C9_TargetEncoded ==
    Written =>
        /\ "postcode" \notin Range(out.columns)
        /\ "Postcode_Encoded" \in Range(out.columns)
        /\ \A i \in 1..Len(df.rows) :
              LET p == Origin(df.rows[i])["postcode"]
                  same == {j \in 1..Len(df.rows) :
                              Origin(df.rows[j])["postcode"] = p}
                  total == SumSeq(SelectSeq(
                              [j \in 1..Len(df.rows) |->
                                  IF j \in same THEN C9_ImputedPrice(df.rows[j])
                                  ELSE NA],
                              LAMBDA x : ~IsNA(x)))
                  enc == out.rows[i]["Postcode_Encoded"]
              IN  ~IsNA(p) =>
                    /\ enc.k = "num"
                    /\ enc.num * total.den * Cardinality(same) = total.num * enc.den
                    /\ \A j \in same : out.rows[j]["Postcode_Encoded"] = enc
                    /\ out.rows[i]["saleEstimate_currentPrice"]
                          = C9_ImputedPrice(df.rows[i])

C9_Witness ==
    /\ Written
    /\ Len(df.rows) = 2
    /\ Origin(df.rows[1])["postcode"] = Str("E1")
    /\ Origin(df.rows[2])["postcode"] = Str("N2")
    /\ IsNA(Origin(df.rows[1])["saleEstimate_currentPrice"])
    /\ out.rows[1]["Postcode_Encoded"] = Num(300, 1)
    /\ out.rows[2]["Postcode_Encoded"] = Num(300, 1)

----------------------------------------------------------------------------
\* Properties of the data-processing notebook.

\* C13: the data flows through matching locations in order: the table the
\* job reads as /opt/ml/processing/input/data.csv is the object Step 4
\* uploaded under 'input/data.csv'; processor.run has returned only when the
\* job has completed and its processed.csv is in the bucket; and the object
\* Step 6 read is the processed.csv the script wrote in that job, never an
\* object that was there before the job wrote it.
C13_DataFlowsInOrder ==
    /\ spc # "not_started" =>
          /\ "upload" \in ldone
          /\ bucket[UploadKey].by = "upload_file"
          /\ input = bucket[UploadKey].body
    /\ "run" \in ldone =>
          /\ job = "Completed"
          /\ spc = "exit"
          /\ out.written
    /\ "validate" \in ldone =>
          /\ "run" \in ldone
          /\ df_cleaned.by = "processing job"
          /\ df_cleaned.body = out

C13_Witness ==
    /\ lrun = "finished"
    /\ "validate" \in ldone
    /\ df_cleaned.by = "processing job"
    /\ df_cleaned.body = out
    /\ Len(input) = MaxRows
    /\ Len(out.rows) = MaxRows

====
